---- MODULE Spec2Model ----
(***************************************************************************)
(* State-machine model of the SSH forwarding tunnel of parallel-ssh.       *)
(*                                                                         *)
(*   pssh/clients/native/tunnel.py : class Tunnel(Thread)                  *)
(*                                                                         *)
(* Two OS threads act on one Tunnel object: the caller's thread (it        *)
(* appends to in_q and may call cleanup()) and the Tunnel thread, whose    *)
(* run() drives a gevent hub.  Inside the Tunnel thread the greenlets      *)
(* (_consume_q, one _start_tunnel per request, two pumps per pair) are     *)
(* scheduled cooperatively: a greenlet keeps the thread until it reaches   *)
(* a blocking call.  The variable cur names the greenlet that holds the    *)
(* thread (Hub when all of them are blocked).  The caller's thread is      *)
(* preemptive with respect to the Tunnel thread, so the steps of its       *)
(* cleanup() interleave with every step of the greenlets.                  *)
(***************************************************************************)
EXTENDS Integers, Sequences, FiniteSets, TLC

\* ------------------------------------------------------------------ bounds
NReq == 2         \* forward requests the caller submits
MaxConn == 1      \* local clients that connect to a listen port
MaxCalls == 1     \* calls of cleanup() the caller makes while the tunnel runs
SeqCalls == 2     \* calls of cleanup() the caller makes one after the other
MaxLen == 3       \* bytes of a stream in the pump specification
MainLen == 1      \* bytes of a stream in the tunnel specification
MaxChunk == 2     \* most bytes one recv()/read() returns (1024 in the code)

\* ------------------------------------------------------- program constants
LIBSSH2_ERROR_EAGAIN == -37
\* some negative libssh2 return code other than EAGAIN
LIBSSH2_ERROR_SOCKET_SEND == -7

Reqs == 1 .. NReq
\* an intake entry that is not a (host, port) pair
BadEntry == 0

Threads == {"caller", "sup"}

\* greenlets of the Tunnel thread
Hub == <<"hub", 0>>
MainLet == <<"run", 0>>
ConsumeLet == <<"consume", 0>>
PairLet(r) == <<"pair", r>>
SrcLet(r) == <<"src", r>>
DstLet(r) == <<"dst", r>>

VARIABLES
    \* fields of the Tunnel object (__init__)
    client, session, _sockets, in_q, out_q, exception, tunnel_open, tunnels,
    \* the objects the fields refer to
    disconnects,   \* calls of client.disconnect() so far
    lsock,         \* per request: state of its listen socket
    fsock,         \* per request: state of the accepted socket (forward_sock)
    chan,          \* per request: state of the channel
    fcloses,       \* per request: calls of forward_sock.close()
    ccloses,       \* per request: calls of channel.close()
    \* control state
    pc_run,        \* position of run()
    consume_let,   \* state of the greenlet that runs _consume_q
    cur,           \* greenlet holding the Tunnel thread
    ppc,           \* per request: position of _start_tunnel
    spc,           \* per request: position of _read_forward_sock
    dpc,           \* per request: position of _read_channel
    clpc,          \* per thread: position of cleanup()
    clidx,         \* per thread: index of the for loop of cleanup()
    clerr,         \* per thread: a cleanup() call of the thread raised
    callsLeft,     \* cleanup() calls the caller has yet to make
    \* locals of the pumps
    data, data_written, rc, size,
    \* the environment
    nsub,          \* requests submitted so far
    badSent,       \* the malformed entry has been submitted
    peer,          \* per request: the local client of the listen port
    _port,         \* requests whose port a client took and has yet to use
    so_error,      \* per request: error pending on the accepted socket
    localOut,      \* per request: bytes the local client sent, not yet recv'd
    remoteOut,     \* per request: bytes of the target, not yet read
    remoteEof,     \* per request: the target has sent EOF
    deadRead,      \* what channel.read() returns once disconnected
    chanIn,        \* per request: bytes the channel accepted from write()
    sockIn,        \* per request: bytes sendall() delivered to the local client
    sockRead,      \* per request: bytes recv() returned so far
    chanRead       \* per request: bytes channel.read() returned so far

tunnelVars == <<client, session, _sockets, in_q, out_q, exception,
                tunnel_open, tunnels, disconnects>>
sockVars == <<lsock, fsock, chan, fcloses, ccloses>>
ctlVars == <<pc_run, consume_let, cur, ppc, spc, dpc>>
clVars == <<clpc, clidx, clerr, callsLeft>>
srcVars == <<data, data_written, rc, localOut, chanIn, sockRead>>
dstVars == <<size, remoteOut, sockIn, chanRead>>
envVars == <<nsub, badSent, peer, _port, so_error, remoteEof, deadRead>>

vars == <<tunnelVars, sockVars, ctlVars, clVars, srcVars, dstVars, envVars>>

\* ----------------------------------------------------------------- helpers
Stream(n) == [i \in 1 .. n |-> i]

Min(a, b) == IF a < b THEN a ELSE b

Take(s, n) == SubSeq(s, 1, n)
Drop(s, n) == SubSeq(s, n + 1, Len(s))

Count(s, x) == Cardinality({i \in 1 .. Len(s) : s[i] = x})

\* the Tunnel thread is inside consume_let.get(): its hub runs the greenlets
HubRunning == pc_run = "get"

\* greenlet g may take a step: it holds the thread, or every greenlet is blocked
Sched(g) == HubRunning /\ cur \in {Hub, g}

\* self.session / self.client can be dereferenced
HasSession == session = "session"
HasClient == client = "client"

\* ------------------------------------------------------------------- Init
\* no pump has run yet
InitPumps ==
    /\ spc = [r \in Reqs |-> "none"]
    /\ dpc = [r \in Reqs |-> "none"]
    /\ data = [r \in Reqs |-> << >>]
    /\ data_written = [r \in Reqs |-> 0]
    /\ rc = [r \in Reqs |-> 0]
    /\ size = [r \in Reqs |-> 0]
    /\ chanIn = [r \in Reqs |-> << >>]
    /\ sockIn = [r \in Reqs |-> << >>]
    /\ sockRead = [r \in Reqs |-> << >>]
    /\ chanRead = [r \in Reqs |-> << >>]

\* no cleanup() call has been made yet
InitCleanup ==
    /\ clpc = [t \in Threads |-> "idle"]
    /\ clidx = [t \in Threads |-> 0]
    /\ clerr = [t \in Threads |-> FALSE]
    /\ disconnects = 0
    /\ deadRead = 0

\* Tunnel.__init__, and start() about to enter run()
InitTunnel ==
    /\ client = "None"
    /\ session = "None"
    /\ _sockets = << >>
    /\ in_q = << >>
    /\ out_q = << >>
    /\ exception = "None"
    /\ tunnel_open = FALSE
    /\ tunnels = << >>
    /\ lsock = [r \in Reqs |-> "none"]
    /\ fsock = [r \in Reqs |-> "none"]
    /\ chan = [r \in Reqs |-> "none"]
    /\ fcloses = [r \in Reqs |-> 0]
    /\ ccloses = [r \in Reqs |-> 0]
    /\ pc_run = "start"
    /\ consume_let = "running"
    /\ cur = MainLet
    /\ ppc = [r \in Reqs |-> "none"]
    /\ nsub = 0
    /\ badSent = FALSE
    /\ peer = [r \in Reqs |-> "none"]
    /\ _port = {}
    /\ so_error = [r \in Reqs |-> "none"]
    /\ remoteEof = [r \in Reqs |-> FALSE]

Init ==
    /\ InitTunnel
    /\ InitPumps
    /\ InitCleanup
    /\ callsLeft = MaxCalls
    /\ localOut = [r \in Reqs |-> Stream(MainLen)]
    /\ remoteOut = [r \in Reqs |-> Stream(MainLen)]

\* ------------------------------------------------------------- the caller
\* in_q.append((host, port)): requests are numbered in submission order
Submit ==
    /\ nsub < NReq
    /\ nsub' = nsub + 1
    /\ in_q' = Append(in_q, nsub + 1)
    /\ UNCHANGED <<client, session, _sockets, out_q, exception, tunnel_open,
                   tunnels, disconnects, sockVars, ctlVars, clVars, srcVars,
                   dstVars, badSent, peer, remoteEof, deadRead,
                   _port, so_error>>

\* in_q.append(x) with x not a 2-tuple
SubmitBad ==
    /\ ~badSent
    /\ badSent' = TRUE
    /\ in_q' = Append(in_q, BadEntry)
    /\ UNCHANGED <<client, session, _sockets, out_q, exception, tunnel_open,
                   tunnels, disconnects, sockVars, ctlVars, clVars, srcVars,
                   dstVars, nsub, peer, remoteEof, deadRead,
                   _port, so_error>>

\* the client has taken the port of r, or is connected to it
ClientOf(r) == r \in _port \/ peer[r] # "none"

\* a local client takes the port at the right end of the result queue:
\* `_port = out_q.pop()`
LocalTakePort(r) ==
    /\ Cardinality({q \in Reqs : ClientOf(q)}) < MaxConn
    /\ out_q # << >>
    /\ out_q[Len(out_q)] = r
    /\ out_q' = SubSeq(out_q, 1, Len(out_q) - 1)
    /\ _port' = _port \cup {r}
    /\ UNCHANGED <<client, session, _sockets, in_q, exception, tunnel_open,
                   tunnels, disconnects, sockVars, ctlVars, clVars, srcVars,
                   dstVars, nsub, badSent, peer, so_error, remoteEof,
                   deadRead>>

\* the client connects to the port it took; the connection is refused
\* when the listen socket is no longer open
LocalConnect(r) ==
    /\ r \in _port
    /\ _port' = _port \ {r}
    /\ peer' = [peer EXCEPT ![r] = IF lsock[r] = "open" THEN "open" ELSE @]
    /\ UNCHANGED <<tunnelVars, sockVars, ctlVars, clVars, srcVars, dstVars,
                   nsub, badSent, so_error, remoteEof, deadRead>>

\* the local client closes its connection, or its sending side: recv()
\* then returns b""
LocalClose(r) ==
    /\ peer[r] = "open"
    /\ fsock[r] = "open"
    /\ peer' = [peer EXCEPT ![r] = "closed"]
    /\ UNCHANGED <<tunnelVars, sockVars, ctlVars, clVars, srcVars, dstVars,
                   nsub, badSent, _port, so_error, remoteEof, deadRead>>

\* the local client resets its connection: the next recv() or sendall()
\* raises ECONNRESET
LocalReset(r) ==
    /\ peer[r] = "open"
    /\ fsock[r] = "open"
    /\ peer' = [peer EXCEPT ![r] = "reset"]
    /\ so_error' = [so_error EXCEPT ![r] = "reset"]
    /\ UNCHANGED <<tunnelVars, sockVars, ctlVars, clVars, srcVars, dstVars,
                   nsub, badSent, _port, remoteEof, deadRead>>

\* the target closes its side: the channel reports EOF once drained
RemoteEof(r) ==
    /\ chan[r] = "open"
    /\ ~remoteEof[r]
    /\ remoteEof' = [remoteEof EXCEPT ![r] = TRUE]
    /\ UNCHANGED <<tunnelVars, sockVars, ctlVars, clVars, srcVars, dstVars,
                   nsub, badSent, peer, deadRead,
                   _port, so_error>>

\* --------------------------------------------------------------- run()
\* a run() that records the error and goes on to the request loop
RunInitFailNoReturn ==
    /\ pc_run = "start"
    /\ exception' = "InitErr"
    /\ pc_run' = "get"
    /\ UNCHANGED consume_let
    /\ cur' = Hub
    /\ UNCHANGED <<client, session, _sockets, in_q, out_q, tunnel_open,
                   tunnels, disconnects, sockVars, ppc, spc, dpc, clVars,
                   srcVars, dstVars, envVars>>

\* run(): _init_tunnel_client raises; the error is recorded and run returns
RunInitFail ==
    /\ pc_run = "start"
    /\ exception' = "InitErr"
    /\ pc_run' = "done"
    /\ UNCHANGED consume_let
    /\ UNCHANGED <<client, session, _sockets, in_q, out_q, tunnel_open,
                   tunnels, disconnects, sockVars, cur, ppc, spc, dpc, clVars,
                   srcVars, dstVars, envVars>>

\* _init_tunnel_client: self.client = SSHClient(...)
InitClient ==
    /\ pc_run = "start"
    /\ client' = "client"
    /\ pc_run' = "init_session"
    /\ UNCHANGED consume_let
    /\ UNCHANGED <<session, _sockets, in_q, out_q, exception, tunnel_open,
                   tunnels, disconnects, sockVars, cur, ppc, spc, dpc, clVars,
                   srcVars, dstVars, envVars>>

\* _init_tunnel_client: self.session = self.client.session
InitSession ==
    /\ pc_run = "init_session"
    /\ session' = "session"
    /\ pc_run' = "init_open"
    /\ UNCHANGED consume_let
    /\ UNCHANGED <<client, _sockets, in_q, out_q, exception, tunnel_open,
                   tunnels, disconnects, sockVars, cur, ppc, spc, dpc, clVars,
                   srcVars, dstVars, envVars>>

\* _init_tunnel_client: self.tunnel_open.set(); then run() spawns _consume_q
\* and blocks in consume_let.get()
SetOpen ==
    /\ pc_run = "init_open"
    /\ tunnel_open' = TRUE
    /\ pc_run' = "get"
    /\ UNCHANGED consume_let
    /\ cur' = Hub
    /\ UNCHANGED <<client, session, _sockets, in_q, out_q, exception, tunnels,
                   disconnects, sockVars, ppc, spc, dpc, clVars, srcVars,
                   dstVars, envVars>>

\* run(): the hub switches back to run(), which waits in consume_let.get()
\* for the greenlet that has died; get() re-raises the greenlet's exception
RunGetRaises ==
    /\ pc_run = "get"
    /\ consume_let = "dead"
    /\ cur = Hub
    /\ pc_run' = "except"
    /\ cur' = MainLet
    /\ UNCHANGED <<tunnelVars, sockVars, consume_let, ppc, spc, dpc, clVars,
                   srcVars, dstVars, envVars>>

\* run(): the handler of `except Exception:`; `self.exception = ex` names a
\* variable that is not bound in this handler, so the slot is not written
\* and the finally block runs cleanup() with an exception pending
RunExcept ==
    /\ pc_run = "except"
    /\ clpc["sup"] = "idle"
    /\ pc_run' = "finally"
    /\ UNCHANGED consume_let
    /\ clpc' = [clpc EXCEPT !["sup"] = "loop"]
    /\ clidx' = [clidx EXCEPT !["sup"] = 1]
    /\ UNCHANGED <<tunnelVars, sockVars, cur, ppc, spc, dpc, clerr, callsLeft,
                   srcVars, dstVars, envVars>>

\* run(): cleanup() of the finally block is over; the pending exception
\* leaves run() and the thread ends
RunExit ==
    /\ pc_run = "finally"
    /\ clpc["sup"] \in {"ret", "raised"}
    /\ pc_run' = "crashed"
    /\ UNCHANGED consume_let
    /\ clpc' = [clpc EXCEPT !["sup"] = "idle"]
    /\ UNCHANGED <<tunnelVars, sockVars, cur, ppc, spc, dpc, clidx, clerr,
                   callsLeft, srcVars, dstVars, envVars>>

\* ---------------------------------------------------------- _consume_q
\* deque.pop(): the entry at the right end, where append() puts new entries
PopEntry(q) == q[Len(q)]

\* a read of the right end that leaves the entry in the queue (q[-1])
PeekRest(q) == q

PopRest(q) == SubSeq(q, 1, Len(q) - 1)

\* a _consume_q that waits for the pair it spawned (tunnel.get()) before
\* it takes the next entry
ConsumePopWaits ==
    /\ Sched(ConsumeLet)
    /\ consume_let = "running"
    /\ in_q # << >>
    /\ \A r \in Reqs : ppc[r] \in {"none", "done"}
    /\ LET e == PopEntry(in_q) IN
        /\ in_q' = PopRest(in_q)
        /\ IF e = BadEntry
           THEN /\ consume_let' = "dead"
                /\ cur' = Hub
                /\ UNCHANGED <<ppc, tunnels>>
           ELSE /\ ppc' = [ppc EXCEPT ![e] = "spawned"]
                /\ tunnels' = Append(tunnels, e)
                /\ cur' = ConsumeLet
                /\ UNCHANGED consume_let
    /\ UNCHANGED pc_run
    /\ UNCHANGED <<client, session, _sockets, out_q, exception, tunnel_open,
                   disconnects, sockVars, spc, dpc, clVars, srcVars, dstVars,
                   envVars>>

\* _consume_q: in_q.pop() returned an entry
ConsumePop ==
    /\ Sched(ConsumeLet)
    /\ consume_let = "running"
    /\ in_q # << >>
    /\ LET e == PopEntry(in_q) IN
        /\ in_q' = PopRest(in_q)
        /\ IF e = BadEntry
           THEN \* `host, port = ...` raises: the greenlet dies and the
                \* hub takes over; run() is still waiting in get()
                /\ consume_let' = "dead"
                /\ cur' = Hub
                /\ UNCHANGED <<ppc, tunnels>>
           ELSE \* spawn(self._start_tunnel, host, port); tunnels.append
                /\ ppc' = [ppc EXCEPT ![e] = "spawned"]
                /\ tunnels' = Append(tunnels, e)
                /\ cur' = ConsumeLet
                /\ UNCHANGED consume_let
    /\ UNCHANGED pc_run
    /\ UNCHANGED <<client, session, _sockets, out_q, exception, tunnel_open,
                   disconnects, sockVars, spc, dpc, clVars, srcVars, dstVars,
                   envVars>>

\* _consume_q: in_q.pop() raised IndexError; sleep(1) yields to the hub
ConsumeSleep ==
    /\ HubRunning
    /\ cur = ConsumeLet
    /\ in_q = << >>
    /\ cur' = Hub
    /\ UNCHANGED <<tunnelVars, sockVars, pc_run, consume_let, ppc, spc, dpc, clVars,
                   srcVars, dstVars, envVars>>

\* ------------------------------------------------------------- cleanup()
\* the caller's thread calls tunnel.cleanup()
CleanupCall ==
    /\ clpc["caller"] = "idle"
    /\ callsLeft > 0
    /\ callsLeft' = callsLeft - 1
    /\ clpc' = [clpc EXCEPT !["caller"] = "loop"]
    /\ clidx' = [clidx EXCEPT !["caller"] = 1]
    /\ UNCHANGED <<tunnelVars, sockVars, ctlVars, clerr, srcVars, dstVars,
                   envVars>>

\* cleanup(): one iteration of `for _sock in self._sockets: _sock.close()`;
\* the list iterator sees the sockets appended while it runs
CleanupLoop(t) ==
    /\ clpc[t] = "loop"
    /\ IF clidx[t] <= Len(_sockets)
       THEN /\ lsock' = [lsock EXCEPT ![_sockets[clidx[t]]] = "closed"]
            /\ clidx' = [clidx EXCEPT ![t] = clidx[t] + 1]
            /\ UNCHANGED clpc
       ELSE /\ clpc' = [clpc EXCEPT ![t] = "check"]
            /\ UNCHANGED <<lsock, clidx>>
    /\ UNCHANGED <<tunnelVars, fsock, chan, fcloses, ccloses, ctlVars, clerr,
                   callsLeft, srcVars, dstVars, envVars>>

\* a cleanup() that disconnects whatever self.session is
AfterCheckUnguarded(s) == IF s = "deleted" THEN "raised" ELSE "disconnect"

\* `if self.session is not None:` with s the value of self.session: the
\* body is skipped for None; reading a deleted attribute raises
AfterCheck(s) ==
    CASE s = "deleted" -> "raised"
      [] s = "None" -> "ret"
      [] OTHER -> "disconnect"

\* cleanup(): `if self.session is not None:`
CleanupCheck(t) ==
    /\ clpc[t] = "check"
    /\ clpc' = [clpc EXCEPT ![t] = AfterCheck(session)]
    /\ clerr' = [clerr EXCEPT ![t] = clerr[t] \/ session = "deleted"]
    /\ UNCHANGED <<tunnelVars, sockVars, ctlVars, clidx, callsLeft, srcVars,
                   dstVars, envVars>>

\* the codes channel.read() can return on a session that was disconnected:
\* the library answers every such read the same way
DeadReadCodes == {LIBSSH2_ERROR_EAGAIN, LIBSSH2_ERROR_SOCKET_SEND}

\* cleanup(): `self.client.disconnect()`
CleanupDisconnect(t) ==
    /\ clpc[t] = "disconnect"
    /\ IF HasClient
       THEN /\ disconnects' = disconnects + 1
            /\ clpc' = [clpc EXCEPT ![t] = "del_session"]
            /\ IF disconnects = 0
               THEN deadRead' \in DeadReadCodes
               ELSE UNCHANGED deadRead
            /\ UNCHANGED clerr
       ELSE \* AttributeError: the attribute is deleted, or None
            /\ clpc' = [clpc EXCEPT ![t] = "raised"]
            /\ clerr' = [clerr EXCEPT ![t] = TRUE]
            /\ UNCHANGED <<disconnects, deadRead>>
    /\ UNCHANGED <<client, session, _sockets, in_q, out_q, exception,
                   tunnel_open, tunnels, sockVars, ctlVars, clidx, callsLeft,
                   srcVars, dstVars, nsub, badSent, peer, remoteEof,
                   _port, so_error>>

\* cleanup(): `del self.session`
CleanupDelSession(t) ==
    /\ clpc[t] = "del_session"
    /\ IF session # "deleted"
       THEN /\ session' = "deleted"
            /\ clpc' = [clpc EXCEPT ![t] = "del_client"]
            /\ UNCHANGED clerr
       ELSE /\ clpc' = [clpc EXCEPT ![t] = "raised"]
            /\ clerr' = [clerr EXCEPT ![t] = TRUE]
            /\ UNCHANGED session
    /\ UNCHANGED <<client, _sockets, in_q, out_q, exception, tunnel_open,
                   tunnels, disconnects, sockVars, ctlVars, clidx, callsLeft,
                   srcVars, dstVars, envVars>>

\* cleanup(): `del self.client`
CleanupDelClient(t) ==
    /\ clpc[t] = "del_client"
    /\ IF client # "deleted"
       THEN /\ client' = "deleted"
            /\ clpc' = [clpc EXCEPT ![t] = "set_client"]
            /\ UNCHANGED clerr
       ELSE /\ clpc' = [clpc EXCEPT ![t] = "raised"]
            /\ clerr' = [clerr EXCEPT ![t] = TRUE]
            /\ UNCHANGED client
    /\ UNCHANGED <<session, _sockets, in_q, out_q, exception, tunnel_open,
                   tunnels, disconnects, sockVars, ctlVars, clidx, callsLeft,
                   srcVars, dstVars, envVars>>

\* cleanup(): `self.client = None`
CleanupSetClient(t) ==
    /\ clpc[t] = "set_client"
    /\ client' = "None"
    /\ clpc' = [clpc EXCEPT ![t] = "set_session"]
    /\ UNCHANGED <<session, _sockets, in_q, out_q, exception, tunnel_open,
                   tunnels, disconnects, sockVars, ctlVars, clidx, clerr,
                   callsLeft, srcVars, dstVars, envVars>>

\* cleanup(): `self.session = None`, and the call returns
CleanupSetSession(t) ==
    /\ clpc[t] = "set_session"
    /\ session' = "None"
    /\ clpc' = [clpc EXCEPT ![t] = "ret"]
    /\ UNCHANGED <<client, _sockets, in_q, out_q, exception, tunnel_open,
                   tunnels, disconnects, sockVars, ctlVars, clidx, clerr,
                   callsLeft, srcVars, dstVars, envVars>>

\* the caller's cleanup() call is over (it returned, or raised to the caller)
CleanupReturn ==
    /\ clpc["caller"] \in {"ret", "raised"}
    /\ clpc' = [clpc EXCEPT !["caller"] = "idle"]
    /\ UNCHANGED <<tunnelVars, sockVars, ctlVars, clidx, clerr, callsLeft,
                   srcVars, dstVars, envVars>>

\* ---------------------------------------------------------- _start_tunnel
\* a _start_tunnel that goes to accept() without announcing its port
PublishNothing(q, r) == q

\* out_q.append(listen_port): the port of request r is r
PublishPort(q, r) == Append(q, r)

\* _init_tunnel_sock: bind, listen, self._sockets.append(tunnel_socket)
PairBind(r) ==
    /\ Sched(PairLet(r))
    /\ ppc[r] = "spawned"
    /\ lsock' = [lsock EXCEPT ![r] = "open"]
    /\ _sockets' = Append(_sockets, r)
    /\ ppc' = [ppc EXCEPT ![r] = "bound"]
    /\ cur' = PairLet(r)
    /\ UNCHANGED <<client, session, in_q, out_q, exception, tunnel_open,
                   tunnels, disconnects, fsock, chan, fcloses, ccloses,
                   pc_run, consume_let, spc, dpc, clVars, srcVars, dstVars, envVars>>

\* _init_tunnel_sock raises: the error is recorded and the pair ends
PairBindFail(r) ==
    /\ Sched(PairLet(r))
    /\ ppc[r] = "spawned"
    /\ exception' = "ListenErr"
    /\ ppc' = [ppc EXCEPT ![r] = "done"]
    /\ cur' = Hub
    /\ UNCHANGED <<client, session, _sockets, in_q, out_q, tunnel_open,
                   tunnels, disconnects, sockVars, pc_run, consume_let, spc, dpc, clVars,
                   srcVars, dstVars, envVars>>

\* self.out_q.append(listen_port), then listen_socket.accept(): it blocks
\* on an open socket, and raises at once on one cleanup() has closed
\* (error recorded, listen_socket.close(), return)
PairPublish(r) ==
    /\ HubRunning
    /\ cur = PairLet(r)
    /\ ppc[r] = "bound"
    /\ out_q' = PublishPort(out_q, r)
    /\ IF lsock[r] = "open"
       THEN /\ ppc' = [ppc EXCEPT ![r] = "accept"]
            /\ UNCHANGED exception
       ELSE /\ ppc' = [ppc EXCEPT ![r] = "done"]
            /\ exception' = "AcceptErr"
    /\ cur' = Hub
    /\ UNCHANGED <<client, session, _sockets, in_q, tunnel_open, tunnels,
                   disconnects, sockVars, pc_run, consume_let, spc, dpc,
                   clVars, srcVars, dstVars, envVars>>

\* listen_socket.accept() returns the connection of the local client
PairAccept(r) ==
    /\ Sched(PairLet(r))
    /\ ppc[r] = "accept"
    /\ lsock[r] = "open"
    /\ peer[r] # "none"
    /\ fsock' = [fsock EXCEPT ![r] = "open"]
    /\ ppc' = [ppc EXCEPT ![r] = "open_channel"]
    /\ cur' = PairLet(r)
    /\ UNCHANGED <<tunnelVars, lsock, chan, fcloses, ccloses, pc_run, consume_let, spc,
                   dpc, clVars, srcVars, dstVars, envVars>>

\* an accept error that is not caught in _start_tunnel and ends the
\* request loop (as when _consume_q waits on the pair with tunnel.get())
PairAcceptFailEscapes(r) ==
    /\ Sched(PairLet(r))
    /\ ppc[r] = "accept"
    /\ exception' = "AcceptErr"
    /\ lsock' = [lsock EXCEPT ![r] = "closed"]
    /\ ppc' = [ppc EXCEPT ![r] = "done"]
    /\ pc_run' = "except"
    /\ UNCHANGED consume_let
    /\ cur' = MainLet
    /\ UNCHANGED <<client, session, _sockets, in_q, out_q, tunnel_open,
                   tunnels, disconnects, fsock, chan, fcloses, ccloses,
                   spc, dpc, clVars, srcVars, dstVars, envVars>>

\* listen_socket.accept() raises: error recorded, listen socket closed
PairAcceptFail(r) ==
    /\ Sched(PairLet(r))
    /\ ppc[r] = "accept"
    /\ exception' = "AcceptErr"
    /\ lsock' = [lsock EXCEPT ![r] = "closed"]
    /\ ppc' = [ppc EXCEPT ![r] = "done"]
    /\ cur' = Hub
    /\ UNCHANGED <<client, session, _sockets, in_q, out_q, tunnel_open,
                   tunnels, disconnects, fsock, chan, fcloses, ccloses,
                   pc_run, consume_let, spc, dpc, clVars, srcVars, dstVars, envVars>>

\* self.session.direct_tcpip_ex(...) returns a channel; the two pumps are
\* spawned and joinall() blocks
PairOpenChannel(r) ==
    /\ Sched(PairLet(r))
    /\ ppc[r] = "open_channel"
    /\ HasSession
    /\ disconnects = 0
    /\ chan' = [chan EXCEPT ![r] = "open"]
    /\ spc' = [spc EXCEPT ![r] = "top"]
    /\ dpc' = [dpc EXCEPT ![r] = "top"]
    /\ ppc' = [ppc EXCEPT ![r] = "join"]
    /\ cur' = Hub
    /\ UNCHANGED <<tunnelVars, lsock, fsock, fcloses, ccloses, pc_run, consume_let,
                   clVars, srcVars, dstVars, envVars>>

\* direct_tcpip_ex returns LIBSSH2_ERROR_EAGAIN: select() on
\* self.client.sock blocks, then the call is made again
PairOpenAgain(r) ==
    /\ Sched(PairLet(r))
    /\ ppc[r] = "open_channel"
    /\ HasSession
    /\ HasClient
    /\ cur' = Hub
    /\ UNCHANGED <<tunnelVars, sockVars, pc_run, consume_let, ppc, spc, dpc, clVars,
                   srcVars, dstVars, envVars>>

\* an except block that records the error and returns without closing
\* the accepted socket
PairChannelFailLeak(r) ==
    /\ Sched(PairLet(r))
    /\ ppc[r] = "open_channel"
    /\ exception' = "ChannelErr"
    /\ ppc' = [ppc EXCEPT ![r] = "done"]
    /\ cur' = Hub
    /\ UNCHANGED <<client, session, _sockets, in_q, out_q, tunnel_open,
                   tunnels, disconnects, sockVars, pc_run, consume_let, spc, dpc,
                   clVars, srcVars, dstVars, envVars>>

\* the except block of the channel opening: direct_tcpip_ex raised, or
\* self.session / self.client could not be dereferenced
PairChannelFail(r) ==
    /\ Sched(PairLet(r))
    /\ ppc[r] = "open_channel"
    /\ exception' = "ChannelErr"
    /\ fsock' = [fsock EXCEPT ![r] = "closed"]
    /\ fcloses' = [fcloses EXCEPT ![r] = fcloses[r] + 1]
    /\ lsock' = [lsock EXCEPT ![r] = "closed"]
    /\ ppc' = [ppc EXCEPT ![r] = "done"]
    /\ cur' = Hub
    /\ UNCHANGED <<client, session, _sockets, in_q, out_q, tunnel_open,
                   tunnels, disconnects, chan, ccloses, pc_run, consume_let, spc, dpc,
                   clVars, srcVars, dstVars, envVars>>

\* a pump has ended (returned or raised)
Ended(p) == p \in {"returned", "raised"}

\* joinall((source, dest), raise_error=True) is over: it returns when both
\* pumps have ended, and raises as soon as one pump has ended by raising
JoinOver(s, d) ==
    \/ Ended(s) /\ Ended(d)
    \/ s = "raised"
    \/ d = "raised"

\* the finally block: channel.close(); forward_sock.close()
PairFinish(r) ==
    /\ Sched(PairLet(r))
    /\ ppc[r] = "join"
    /\ JoinOver(spc[r], dpc[r])
    /\ chan' = [chan EXCEPT ![r] = "closed"]
    /\ ccloses' = [ccloses EXCEPT ![r] = ccloses[r] + 1]
    /\ fsock' = [fsock EXCEPT ![r] = "closed"]
    /\ fcloses' = [fcloses EXCEPT ![r] = fcloses[r] + 1]
    /\ ppc' = [ppc EXCEPT ![r] = "done"]
    /\ cur' = Hub
    /\ UNCHANGED <<tunnelVars, lsock, pc_run, consume_let, spc, dpc, clVars, srcVars,
                   dstVars, envVars>>

\* ------------------------------------------------------------- the channel
\* channel.eof(): the target sent EOF and nothing is left to read
ChannelEof(r) == remoteEof[r] /\ remoteOut[r] = << >>

\* the channel can carry data: it is open and its session is connected
ChannelUsable(r) == chan[r] = "open" /\ disconnects = 0

\* what channel.write(buf) may return: a count of bytes accepted (a prefix
\* of buf), would-block, or another negative code
WriteResults(r, buf) ==
    IF ~ChannelUsable(r)
    THEN {LIBSSH2_ERROR_EAGAIN, LIBSSH2_ERROR_SOCKET_SEND}
    ELSE IF buf = << >>
    THEN {0}
    ELSE {LIBSSH2_ERROR_EAGAIN, LIBSSH2_ERROR_SOCKET_SEND} \cup (1 .. Len(buf))

\* what channel.read() may return as (size, data)
ReadResults(r) ==
    IF disconnects > 0 THEN {<<deadRead, << >> >>} ELSE
    {<<LIBSSH2_ERROR_SOCKET_SEND, << >> >>}
    \cup (IF ChannelUsable(r) /\ remoteOut[r] # << >>
          THEN {<<k, Take(remoteOut[r], k)>> :
                    k \in 1 .. Min(MaxChunk, Len(remoteOut[r]))}
          ELSE {})
    \cup (IF ChannelUsable(r) /\ ChannelEof(r)
          THEN {<<0, << >> >>}
          ELSE {<<LIBSSH2_ERROR_EAGAIN, << >> >>})

\* ------------------------------------------------------ the accepted socket
\* forward_sock.recv() raises: the socket is closed, or nothing is queued
\* and a reset of the local client has not been reported yet (bytes queued
\* before the reset are returned first)
RecvRaises(r) ==
    \/ fsock[r] # "open"
    \/ localOut[r] = << >> /\ so_error[r] = "reset"

\* forward_sock.recv() returns b"": nothing is queued and the local client
\* has closed, or it has reset and the reset was already reported
RecvEmpty(r) ==
    /\ ~RecvRaises(r)
    /\ localOut[r] = << >>
    /\ peer[r] \in {"closed", "reset"}

\* forward_sock.sendall() raises: the socket is closed, the local client
\* reset the connection, or it answered an earlier chunk with a reset
SendRaises(r) ==
    fsock[r] # "open" \/ peer[r] = "reset" \/ so_error[r] = "pipe"

\* the error pending once recv() or sendall() has raised: a reset is
\* reported once
Reported(e) == IF e = "reset" THEN "none" ELSE e

\* the error pending once sendall() has delivered a chunk: a local client
\* that has closed its socket answers the chunk with a reset (EPIPE from
\* then on), one that closed only its sending side keeps receiving
AfterSend(r) == IF peer[r] = "closed" THEN {so_error[r], "pipe"}
                                      ELSE {so_error[r]}

\* ----------------------------------------------------- _read_forward_sock
\* a retry that writes the whole buffer again: channel.write(data)
RetryWhole(d, w) == d

\* the buffer of the write made after a would-block: data[data_written:]
RetryBuf(d, w) == Drop(d, w)

\* the channel accepts the first n bytes of buf (n <= 0: none)
Accept(acc, buf, n) == IF n > 0 THEN acc \o Take(buf, n) ELSE acc

\* top of the loop: `if channel.eof(): return`
SrcEof(r) ==
    /\ Sched(SrcLet(r))
    /\ spc[r] = "top"
    /\ ChannelEof(r)
    /\ spc' = [spc EXCEPT ![r] = "returned"]
    /\ cur' = Hub
    /\ UNCHANGED <<tunnelVars, sockVars, pc_run, consume_let, ppc, dpc, clVars, srcVars,
                   dstVars, envVars>>

\* forward_sock.recv(1024) is being called (the channel is not at EOF), or
\* the greenlet is blocked inside it
InRecv(r) == (spc[r] = "top" /\ ~ChannelEof(r)) \/ spc[r] = "recv"

\* forward_sock.recv(1024) has nothing to return yet: the greenlet blocks
SrcRecvBlock(r) ==
    /\ Sched(SrcLet(r))
    /\ spc[r] = "top"
    /\ ~ChannelEof(r)
    /\ fsock[r] = "open"
    /\ peer[r] = "open"
    /\ localOut[r] = << >>
    /\ spc' = [spc EXCEPT ![r] = "recv"]
    /\ cur' = Hub
    /\ UNCHANGED <<tunnelVars, sockVars, pc_run, consume_let, ppc, dpc, clVars, srcVars,
                   dstVars, envVars>>

\* forward_sock.recv(1024) returns a non-empty buffer, whatever the local
\* client has done since it sent the bytes; data_written = 0
SrcRecv(r) ==
    /\ Sched(SrcLet(r))
    /\ InRecv(r)
    /\ fsock[r] = "open"
    /\ localOut[r] # << >>
    /\ \E k \in 1 .. Min(MaxChunk, Len(localOut[r])) :
        /\ data' = [data EXCEPT ![r] = Take(localOut[r], k)]
        /\ localOut' = [localOut EXCEPT ![r] = Drop(localOut[r], k)]
        /\ sockRead' = [sockRead EXCEPT ![r] = sockRead[r] \o Take(localOut[r], k)]
    /\ data_written' = [data_written EXCEPT ![r] = 0]
    /\ spc' = [spc EXCEPT ![r] = "write"]
    /\ cur' = SrcLet(r)
    /\ UNCHANGED <<tunnelVars, sockVars, pc_run, consume_let, ppc, dpc, clVars, rc, chanIn,
                   dstVars, envVars>>

\* forward_sock.recv(1024) returns b"" (the local client has gone and
\* nothing is queued): `continue`, without passing a blocking call
SrcRecvEmpty(r) ==
    /\ Sched(SrcLet(r))
    /\ InRecv(r)
    /\ RecvEmpty(r)
    /\ data' = [data EXCEPT ![r] = << >>]
    /\ spc' = [spc EXCEPT ![r] = "top"]
    /\ cur' = SrcLet(r)
    /\ UNCHANGED <<tunnelVars, sockVars, pc_run, consume_let, ppc, dpc,
                   clVars, data_written, rc, localOut, chanIn, sockRead,
                   dstVars, envVars>>

\* forward_sock.recv(1024) raises: the socket is closed, or the queue is
\* empty and the pending reset is reported, once
SrcRecvRaise(r) ==
    /\ Sched(SrcLet(r))
    /\ InRecv(r)
    /\ RecvRaises(r)
    /\ so_error' = [so_error EXCEPT ![r] = Reported(@)]
    /\ spc' = [spc EXCEPT ![r] = "raised"]
    /\ cur' = Hub
    /\ UNCHANGED <<tunnelVars, sockVars, pc_run, consume_let, ppc, dpc,
                   clVars, srcVars, dstVars, nsub, badSent, peer, _port, remoteEof, deadRead>>

\* `rc = channel.write(buf)` returned n, with buf the rest of data; then
\* `while data_written < data_len:` and the branches on rc
SrcWritten(r, buf, n) ==
    /\ rc' = [rc EXCEPT ![r] = n]
    /\ chanIn' = [chanIn EXCEPT ![r] = Accept(chanIn[r], buf, n)]
    /\ IF data_written[r] >= Len(data[r])
       THEN \* the buffer is delivered: back to the top of the outer loop
            /\ spc' = [spc EXCEPT ![r] = "top"]
            /\ cur' = SrcLet(r)
            /\ UNCHANGED data_written
       ELSE IF n = LIBSSH2_ERROR_EAGAIN
       THEN \* select((), (self.client.sock,), (), timeout=0.001)
            /\ spc' = [spc EXCEPT ![r] = IF HasClient THEN "select"
                                                      ELSE "raised"]
            /\ cur' = Hub
            /\ UNCHANGED data_written
       ELSE IF n < 0
       THEN \* handle_error_codes(rc) is logged; return
            /\ spc' = [spc EXCEPT ![r] = "returned"]
            /\ cur' = Hub
            /\ UNCHANGED data_written
       ELSE \* data_written += rc; the next write is made
            /\ data_written' = [data_written EXCEPT ![r] = data_written[r] + n]
            /\ spc' = [spc EXCEPT ![r] = "write"]
            /\ cur' = SrcLet(r)

\* `rc = channel.write(data)` after recv, and
\* `rc = channel.write(data[data_written:])` at the end of the loop body
SrcWrite(r) ==
    /\ HubRunning
    /\ cur = SrcLet(r)
    /\ spc[r] = "write"
    /\ LET buf == Drop(data[r], data_written[r]) IN
       \E n \in WriteResults(r, buf) : SrcWritten(r, buf, n)
    /\ UNCHANGED <<tunnelVars, sockVars, pc_run, consume_let, ppc, dpc, clVars, data,
                   localOut, sockRead, dstVars, envVars>>

\* select() is over: `rc = channel.write(data[data_written:])`; continue
SrcRetry(r) ==
    /\ Sched(SrcLet(r))
    /\ spc[r] = "select"
    /\ LET buf == RetryBuf(data[r], data_written[r]) IN
       \E n \in WriteResults(r, buf) : SrcWritten(r, buf, n)
    /\ UNCHANGED <<tunnelVars, sockVars, pc_run, consume_let, ppc, dpc, clVars, data,
                   localOut, sockRead, dstVars, envVars>>

\* ---------------------------------------------------------- _read_channel
\* top of the loop: `if channel.eof(): return`
DstEof(r) ==
    /\ Sched(DstLet(r))
    /\ dpc[r] = "top"
    /\ ChannelEof(r)
    /\ dpc' = [dpc EXCEPT ![r] = "returned"]
    /\ cur' = Hub
    /\ UNCHANGED <<tunnelVars, sockVars, pc_run, consume_let, ppc, spc, clVars, srcVars,
                   dstVars, envVars>>

\* channel.read() is being called: after the eof test, after select(), or
\* after sendall()
InRead(r) == (dpc[r] = "top" /\ ~ChannelEof(r)) \/ dpc[r] \in {"read", "select"}

\* `size, data = channel.read()` returned (n, buf); then
\* `while size == LIBSSH2_ERROR_EAGAIN or size > 0:` and its body
DstRead(r) ==
    /\ Sched(DstLet(r))
    /\ InRead(r)
    /\ \E res \in ReadResults(r) :
       LET n == res[1]
           buf == res[2]
       IN
        /\ size' = [size EXCEPT ![r] = n]
        /\ remoteOut' = [remoteOut EXCEPT ![r] = Drop(remoteOut[r], Len(buf))]
        /\ chanRead' = [chanRead EXCEPT ![r] = chanRead[r] \o buf]
        /\ IF n = LIBSSH2_ERROR_EAGAIN
           THEN \* select((self.client.sock,), (), (), timeout=0.001)
                /\ dpc' = [dpc EXCEPT ![r] = IF HasClient THEN "select"
                                                          ELSE "raised"]
                /\ cur' = Hub
                /\ UNCHANGED <<sockIn, so_error>>
           ELSE IF n > 0
           THEN \* forward_sock.sendall(data): it delivers the chunk at
                \* once, or waits in the hub for room in the send buffer
                IF ~SendRaises(r)
                THEN \/ /\ sockIn' = [sockIn EXCEPT ![r] = sockIn[r] \o buf]
                        /\ \E e \in AfterSend(r) :
                              so_error' = [so_error EXCEPT ![r] = e]
                        /\ dpc' = [dpc EXCEPT ![r] = "read"]
                        /\ cur' = DstLet(r)
                     \/ /\ dpc' = [dpc EXCEPT ![r] = "sendall"]
                        /\ cur' = Hub
                        /\ UNCHANGED <<sockIn, so_error>>
                ELSE /\ dpc' = [dpc EXCEPT ![r] = "raised"]
                     /\ so_error' = [so_error EXCEPT ![r] = Reported(@)]
                     /\ cur' = Hub
                     /\ UNCHANGED sockIn
           ELSE \* size <= 0 and not would-block: both inner loops are
                \* left, back to the top of the outer loop
                /\ dpc' = [dpc EXCEPT ![r] = "top"]
                /\ cur' = DstLet(r)
                /\ UNCHANGED <<sockIn, so_error>>
    /\ UNCHANGED <<tunnelVars, sockVars, pc_run, consume_let, ppc, spc,
                   clVars, srcVars, nsub, badSent, peer, _port, remoteEof, deadRead>>

\* the chunk that sendall() has yet to deliver: read, not yet in sockIn
Unsent(r) == Drop(chanRead[r], Len(sockIn[r]))

\* forward_sock.sendall(data) that waited is woken: it delivers the chunk
\* and the next `size, data = channel.read()` follows, or it raises
DstSendall(r) ==
    /\ Sched(DstLet(r))
    /\ dpc[r] = "sendall"
    /\ IF ~SendRaises(r)
       THEN /\ sockIn' = [sockIn EXCEPT ![r] = sockIn[r] \o Unsent(r)]
            /\ \E e \in AfterSend(r) : so_error' = [so_error EXCEPT ![r] = e]
            /\ dpc' = [dpc EXCEPT ![r] = "read"]
            /\ cur' = DstLet(r)
       ELSE /\ dpc' = [dpc EXCEPT ![r] = "raised"]
            /\ so_error' = [so_error EXCEPT ![r] = Reported(@)]
            /\ cur' = Hub
            /\ UNCHANGED sockIn
    /\ UNCHANGED <<tunnelVars, sockVars, pc_run, consume_let, ppc, spc,
                   clVars, srcVars, size, remoteOut, chanRead,
                   nsub, badSent, peer, _port, remoteEof, deadRead>>

\* ------------------------------------------------------------------ Next
PumpStep(r) ==
    \/ SrcEof(r)
    \/ SrcRecvBlock(r)
    \/ SrcRecv(r)
    \/ SrcRecvEmpty(r)
    \/ SrcRecvRaise(r)
    \/ SrcWrite(r)
    \/ SrcRetry(r)
    \/ DstEof(r)
    \/ DstRead(r)
    \/ DstSendall(r)

PairStep(r) ==
    \/ PairBind(r)
    \/ PairBindFail(r)
    \/ PairPublish(r)
    \/ PairAccept(r)
    \/ PairAcceptFail(r)
    \/ PairOpenChannel(r)
    \/ PairOpenAgain(r)
    \/ PairChannelFail(r)
    \/ PairFinish(r)

CleanupStep(t) ==
    \/ CleanupLoop(t)
    \/ CleanupCheck(t)
    \/ CleanupDisconnect(t)
    \/ CleanupDelSession(t)
    \/ CleanupDelClient(t)
    \/ CleanupSetClient(t)
    \/ CleanupSetSession(t)

EnvStep(r) ==
    \/ LocalTakePort(r)
    \/ LocalConnect(r)
    \/ LocalClose(r)
    \/ LocalReset(r)
    \/ RemoteEof(r)

\* The tunnel serving well-formed requests: every entry of in_q is a
\* (host, port) pair, so _consume_q never ends.
Next ==
    \/ Submit
    \/ CleanupCall
    \/ CleanupReturn
    \/ RunInitFail
    \/ InitClient
    \/ InitSession
    \/ SetOpen
    \/ ConsumePop
    \/ ConsumeSleep
    \/ \E t \in Threads : CleanupStep(t)
    \/ \E r \in Reqs : PairStep(r) \/ PumpStep(r) \/ EnvStep(r)

Spec == Init /\ [][Next]_vars

\* The tunnel given a malformed entry: _consume_q ends with an error and
\* run() reaches its finally block while the caller may be in cleanup().
\* No local client connects.
NextCrash ==
    \/ Submit
    \/ SubmitBad
    \/ CleanupCall
    \/ CleanupReturn
    \/ RunInitFail
    \/ InitClient
    \/ InitSession
    \/ SetOpen
    \/ RunGetRaises
    \/ RunExcept
    \/ RunExit
    \/ ConsumePop
    \/ ConsumeSleep
    \/ \E t \in Threads : CleanupStep(t)
    \/ \E r \in Reqs : \/ PairBind(r)
                       \/ PairBindFail(r)
                       \/ PairPublish(r)
                       \/ PairAcceptFail(r)

SpecCrash == Init /\ [][NextCrash]_vars

\* A quiescent tunnel: run() either failed to connect, or is established
\* with every consumed request blocked in accept() or ended by an accept
\* error; only the caller acts, calling cleanup() SeqCalls times in a row.
Perms(k) == {f \in [1 .. k -> 1 .. k] : \A i, j \in 1 .. k : f[i] = f[j] => i = j}

InitSeqState(up, k, order, failed) ==
    /\ client = IF up THEN "client" ELSE "None"
    /\ session = IF up THEN "session" ELSE "None"
    /\ tunnel_open = up
    /\ pc_run = IF up THEN "get" ELSE "done"
    /\ consume_let = "running"
    /\ cur = IF up THEN Hub ELSE MainLet
    /\ exception = IF ~up THEN "InitErr"
                   ELSE IF failed # {} THEN "AcceptErr" ELSE "None"
    /\ _sockets = order
    /\ out_q = order
    /\ tunnels = order
    /\ in_q = << >>
    /\ nsub = k
    /\ lsock = [r \in Reqs |-> IF r > k THEN "none"
                               ELSE IF r \in failed THEN "closed" ELSE "open"]
    /\ ppc = [r \in Reqs |-> IF r > k THEN "none"
                             ELSE IF r \in failed THEN "done" ELSE "accept"]
    /\ fsock = [r \in Reqs |-> "none"]
    /\ chan = [r \in Reqs |-> "none"]
    /\ fcloses = [r \in Reqs |-> 0]
    /\ ccloses = [r \in Reqs |-> 0]
    /\ badSent = FALSE
    /\ peer = [r \in Reqs |-> "none"]
    /\ _port = {}
    /\ so_error = [r \in Reqs |-> "none"]
    /\ remoteEof = [r \in Reqs |-> FALSE]

InitSeq ==
    /\ \E up \in BOOLEAN, k \in 0 .. NReq :
       \E order \in Perms(k), failed \in SUBSET (1 .. k) :
        /\ up \/ k = 0
        /\ InitSeqState(up, k, order, failed)
    /\ InitPumps
    /\ InitCleanup
    /\ callsLeft = SeqCalls
    /\ localOut = [r \in Reqs |-> Stream(MainLen)]
    /\ remoteOut = [r \in Reqs |-> Stream(MainLen)]

NextSeq ==
    \/ CleanupCall
    \/ CleanupReturn
    \/ CleanupStep("caller")

SpecSeq == InitSeq /\ [][NextSeq]_vars

\* One established pair: the channel is open, the local client is
\* connected, both pumps are spawned and _start_tunnel is in joinall().
InitPump ==
    /\ client = "client"
    /\ session = "session"
    /\ tunnel_open = TRUE
    /\ pc_run = "get"
    /\ consume_let = "running"
    /\ cur = Hub
    /\ exception = "None"
    /\ _sockets = <<1>>
    /\ out_q = << >>
    /\ tunnels = <<1>>
    /\ in_q = << >>
    /\ nsub = 1
    /\ lsock = [r \in Reqs |-> IF r = 1 THEN "open" ELSE "none"]
    /\ fsock = [r \in Reqs |-> IF r = 1 THEN "open" ELSE "none"]
    /\ chan = [r \in Reqs |-> IF r = 1 THEN "open" ELSE "none"]
    /\ ppc = [r \in Reqs |-> IF r = 1 THEN "join" ELSE "none"]
    /\ peer = [r \in Reqs |-> IF r = 1 THEN "open" ELSE "none"]
    /\ _port = {}
    /\ so_error = [r \in Reqs |-> "none"]
    /\ fcloses = [r \in Reqs |-> 0]
    /\ ccloses = [r \in Reqs |-> 0]
    /\ badSent = FALSE
    /\ remoteEof = [r \in Reqs |-> FALSE]
    /\ spc = [r \in Reqs |-> IF r = 1 THEN "top" ELSE "none"]
    /\ dpc = [r \in Reqs |-> IF r = 1 THEN "top" ELSE "none"]
    /\ data = [r \in Reqs |-> << >>]
    /\ data_written = [r \in Reqs |-> 0]
    /\ rc = [r \in Reqs |-> 0]
    /\ size = [r \in Reqs |-> 0]
    /\ chanIn = [r \in Reqs |-> << >>]
    /\ sockIn = [r \in Reqs |-> << >>]
    /\ sockRead = [r \in Reqs |-> << >>]
    /\ chanRead = [r \in Reqs |-> << >>]
    /\ InitCleanup
    /\ callsLeft = 0
    /\ localOut = [r \in Reqs |-> Stream(MaxLen)]
    /\ remoteOut = [r \in Reqs |-> Stream(MaxLen)]

NextPump ==
    \E r \in Reqs :
        \/ PumpStep(r)
        \/ LocalClose(r)
        \/ LocalReset(r)
        \/ RemoteEof(r)
        \/ PairFinish(r)

SpecPump == InitPump /\ [][NextPump]_vars

\* The caller calls cleanup() on one established pair whose pumps are
\* running; the local client and the target do nothing further.
InitCancel ==
    /\ client = "client"
    /\ session = "session"
    /\ tunnel_open = TRUE
    /\ pc_run = "get"
    /\ consume_let = "running"
    /\ cur = Hub
    /\ exception = "None"
    /\ _sockets = <<1>>
    /\ out_q = << >>
    /\ tunnels = <<1>>
    /\ in_q = << >>
    /\ nsub = 1
    /\ lsock = [r \in Reqs |-> IF r = 1 THEN "open" ELSE "none"]
    /\ fsock = [r \in Reqs |-> IF r = 1 THEN "open" ELSE "none"]
    /\ chan = [r \in Reqs |-> IF r = 1 THEN "open" ELSE "none"]
    /\ ppc = [r \in Reqs |-> IF r = 1 THEN "join" ELSE "none"]
    /\ peer = [r \in Reqs |-> IF r = 1 THEN "open" ELSE "none"]
    /\ _port = {}
    /\ so_error = [r \in Reqs |-> "none"]
    /\ fcloses = [r \in Reqs |-> 0]
    /\ ccloses = [r \in Reqs |-> 0]
    /\ badSent = FALSE
    /\ remoteEof = [r \in Reqs |-> FALSE]
    /\ spc = [r \in Reqs |-> IF r = 1 THEN "top" ELSE "none"]
    /\ dpc = [r \in Reqs |-> IF r = 1 THEN "top" ELSE "none"]
    /\ data = [r \in Reqs |-> << >>]
    /\ data_written = [r \in Reqs |-> 0]
    /\ rc = [r \in Reqs |-> 0]
    /\ size = [r \in Reqs |-> 0]
    /\ chanIn = [r \in Reqs |-> << >>]
    /\ sockIn = [r \in Reqs |-> << >>]
    /\ sockRead = [r \in Reqs |-> << >>]
    /\ chanRead = [r \in Reqs |-> << >>]
    /\ InitCleanup
    /\ callsLeft = MaxCalls
    /\ localOut = [r \in Reqs |-> Stream(MainLen)]
    /\ remoteOut = [r \in Reqs |-> Stream(MainLen)]

\* the steps of _read_forward_sock of request r
SrcStep(r) ==
    \/ SrcEof(r)
    \/ SrcRecvBlock(r)
    \/ SrcRecv(r)
    \/ SrcRecvEmpty(r)
    \/ SrcRecvRaise(r)
    \/ SrcWrite(r)
    \/ SrcRetry(r)

\* the steps of _read_channel of request r
DstStep(r) == DstEof(r) \/ DstRead(r) \/ DstSendall(r)

NextCancel ==
    \/ CleanupCall
    \/ CleanupReturn
    \/ CleanupStep("caller")
    \/ \E r \in Reqs :
          \/ SrcStep(r)
          \/ DstStep(r)
          \/ PairFinish(r)
          \/ LocalClose(r)
          \/ RemoteEof(r)

\* the caller's thread keeps running, and the hub runs every greenlet that
\* is ready whenever it gets the thread, so that a greenlet that is ready
\* again and again eventually takes a step; the local client and the target
\* need never act
SpecCancel ==
    /\ InitCancel
    /\ [][NextCancel]_vars
    /\ WF_vars(CleanupStep("caller") \/ CleanupReturn)
    /\ \A r \in Reqs :
          SF_vars(SrcStep(r)) /\ SF_vars(DstStep(r)) /\ SF_vars(PairFinish(r))

\* The pumps of one established pair, with every greenlet that is ready
\* again and again eventually run by the hub; the local client and the
\* target act as they like.
SpecPumpFair ==
    /\ InitPump
    /\ [][NextPump]_vars
    /\ \A r \in Reqs :
          SF_vars(SrcStep(r)) /\ SF_vars(DstStep(r)) /\ SF_vars(PairFinish(r))

\* ======================================== pssh/tunnel.py (single request)
\* The older Tunnel of pssh/tunnel.py, on the same state. Its run() calls
\* _consume_q itself: pc_run is "take" while it blocks in in_q.get() and
\* "get" while it waits in tunnel.get() with the hub running the greenlets.

\* _init_tunnel_client returned (it does not set tunnel_open); `while True:`
LegacyEnterLoop ==
    /\ pc_run = "init_open"
    /\ pc_run' = "take"
    /\ UNCHANGED consume_let
    /\ UNCHANGED <<tunnelVars, sockVars, cur, ppc, spc, dpc, clVars, srcVars,
                   dstVars, envVars>>

\* _consume_q: in_q.get() returns the oldest entry; spawn; tunnels.append;
\* tunnel.get() waits for the pair
LegacyTake ==
    /\ pc_run = "take"
    /\ in_q # << >>
    /\ ppc' = [ppc EXCEPT ![Head(in_q)] = "spawned"]
    /\ tunnels' = Append(tunnels, Head(in_q))
    /\ in_q' = Tail(in_q)
    /\ pc_run' = "get"
    /\ UNCHANGED consume_let
    /\ cur' = Hub
    /\ UNCHANGED <<client, session, _sockets, out_q, exception, tunnel_open,
                   disconnects, sockVars, spc, dpc, clVars, srcVars, dstVars,
                   envVars>>

\* the pair tunnel.get() waits for
LegacyServed == tunnels[Len(tunnels)]

\* _start_tunnel: _init_tunnel_sock, out_q.put(listen_port),
\* tunnel_open.set(), then accept() blocks
LegacyBind(r) ==
    /\ Sched(PairLet(r))
    /\ ppc[r] = "spawned"
    /\ lsock' = [lsock EXCEPT ![r] = "open"]
    /\ _sockets' = Append(_sockets, r)
    /\ out_q' = PublishPort(out_q, r)
    /\ tunnel_open' = TRUE
    /\ ppc' = [ppc EXCEPT ![r] = "accept"]
    /\ cur' = Hub
    /\ UNCHANGED <<client, session, in_q, exception, tunnels, disconnects,
                   fsock, chan, fcloses, ccloses, pc_run, consume_let, spc, dpc, clVars,
                   srcVars, dstVars, envVars>>

\* _init_tunnel_sock raises: nothing catches it in _start_tunnel
LegacyBindFail(r) ==
    /\ Sched(PairLet(r))
    /\ ppc[r] = "spawned"
    /\ ppc' = [ppc EXCEPT ![r] = "raised"]
    /\ cur' = Hub
    /\ UNCHANGED <<tunnelVars, sockVars, pc_run, consume_let, spc, dpc, clVars, srcVars,
                   dstVars, envVars>>

\* listen_socket.accept() returns the connection of the local client
LegacyAccept(r) ==
    /\ Sched(PairLet(r))
    /\ ppc[r] = "accept"
    /\ lsock[r] = "open"
    /\ peer[r] # "none"
    /\ fsock' = [fsock EXCEPT ![r] = "open"]
    /\ ppc' = [ppc EXCEPT ![r] = "open_channel"]
    /\ cur' = PairLet(r)
    /\ UNCHANGED <<tunnelVars, lsock, chan, fcloses, ccloses, pc_run, consume_let, spc,
                   dpc, clVars, srcVars, dstVars, envVars>>

\* listen_socket.accept() raises: nothing catches it in _start_tunnel
LegacyAcceptFail(r) ==
    /\ Sched(PairLet(r))
    /\ ppc[r] = "accept"
    /\ ppc' = [ppc EXCEPT ![r] = "raised"]
    /\ cur' = Hub
    /\ UNCHANGED <<tunnelVars, sockVars, pc_run, consume_let, spc, dpc, clVars, srcVars,
                   dstVars, envVars>>

\* direct_tcpip_ex returns a channel; both pumps are spawned; joinall
LegacyOpenChannel(r) ==
    /\ Sched(PairLet(r))
    /\ ppc[r] = "open_channel"
    /\ HasSession
    /\ disconnects = 0
    /\ chan' = [chan EXCEPT ![r] = "open"]
    /\ spc' = [spc EXCEPT ![r] = "top"]
    /\ dpc' = [dpc EXCEPT ![r] = "top"]
    /\ ppc' = [ppc EXCEPT ![r] = "join"]
    /\ cur' = Hub
    /\ UNCHANGED <<tunnelVars, lsock, fsock, fcloses, ccloses, pc_run, consume_let,
                   clVars, srcVars, dstVars, envVars>>

\* direct_tcpip_ex returns LIBSSH2_ERROR_EAGAIN: wait_select(self.session)
\* blocks, then the call is made again
LegacyOpenAgain(r) ==
    /\ Sched(PairLet(r))
    /\ ppc[r] = "open_channel"
    /\ HasSession
    /\ cur' = Hub
    /\ UNCHANGED <<tunnelVars, sockVars, pc_run, consume_let, ppc, spc, dpc,
                   clVars, srcVars, dstVars, envVars>>

\* the channel opening raises: `self.exception = ex; return`, then the
\* finally clause calls self.session.set_blocking(0), which raises when
\* there is no session
LegacyChannelFail(r) ==
    /\ Sched(PairLet(r))
    /\ ppc[r] = "open_channel"
    /\ exception' = "ChannelErr"
    /\ ppc' = [ppc EXCEPT ![r] = IF HasSession THEN "done" ELSE "raised"]
    /\ cur' = Hub
    /\ UNCHANGED <<client, session, _sockets, in_q, out_q, tunnel_open,
                   tunnels, disconnects, sockVars, pc_run, consume_let, spc, dpc, clVars,
                   srcVars, dstVars, envVars>>

\* joinall((source, dest), raise_error=True) is over: when it raises,
\* _start_tunnel ends there; otherwise channel.close(); forward_sock.close()
LegacyPairFinish(r) ==
    /\ Sched(PairLet(r))
    /\ ppc[r] = "join"
    /\ JoinOver(spc[r], dpc[r])
    /\ IF spc[r] = "raised" \/ dpc[r] = "raised"
       THEN /\ ppc' = [ppc EXCEPT ![r] = "raised"]
            /\ UNCHANGED sockVars
       ELSE /\ chan' = [chan EXCEPT ![r] = "closed"]
            /\ ccloses' = [ccloses EXCEPT ![r] = ccloses[r] + 1]
            /\ fsock' = [fsock EXCEPT ![r] = "closed"]
            /\ fcloses' = [fcloses EXCEPT ![r] = fcloses[r] + 1]
            /\ ppc' = [ppc EXCEPT ![r] = "done"]
            /\ UNCHANGED lsock
    /\ cur' = Hub
    /\ UNCHANGED <<tunnelVars, pc_run, consume_let, spc, dpc, clVars, srcVars, dstVars,
                   envVars>>

\* run(): tunnel.get() is over; `except Exception as ex: self.exception =
\* ex` when the pair raised; the finally clause calls _cleanup()
LegacyPairOver ==
    /\ pc_run = "get"
    /\ cur = Hub
    /\ tunnels # << >>
    /\ ppc[LegacyServed] \in {"done", "raised"}
    /\ clpc["sup"] = "idle"
    /\ exception' = IF ppc[LegacyServed] = "raised" THEN "PairErr"
                                                    ELSE exception
    /\ pc_run' = "finally"
    /\ UNCHANGED consume_let
    /\ cur' = MainLet
    /\ clpc' = [clpc EXCEPT !["sup"] = "loop"]
    /\ clidx' = [clidx EXCEPT !["sup"] = 1]
    /\ UNCHANGED <<client, session, _sockets, in_q, out_q, tunnel_open,
                   tunnels, disconnects, sockVars, ppc, spc, dpc, clerr,
                   callsLeft, srcVars, dstVars, envVars>>

\* run(): _cleanup() returned; `while True:` calls _consume_q again
LegacyLoopAgain ==
    /\ pc_run = "finally"
    /\ clpc["sup"] = "ret"
    /\ pc_run' = "take"
    /\ UNCHANGED consume_let
    /\ clpc' = [clpc EXCEPT !["sup"] = "idle"]
    /\ UNCHANGED <<tunnelVars, sockVars, cur, ppc, spc, dpc, clidx, clerr,
                   callsLeft, srcVars, dstVars, envVars>>

\* the buffer of the write made after a would-block: channel.write(data)
LegacyRetryBuf(d, w) == d

\* `rc = channel.write(buf)` returned n; then `while data_written <
\* data_len:` and the branches on rc, with wait_select(channel.session)
LegacySrcWritten(r, buf, n) ==
    /\ rc' = [rc EXCEPT ![r] = n]
    /\ chanIn' = [chanIn EXCEPT ![r] = Accept(chanIn[r], buf, n)]
    /\ IF data_written[r] >= Len(data[r])
       THEN /\ spc' = [spc EXCEPT ![r] = "top"]
            /\ cur' = SrcLet(r)
            /\ UNCHANGED data_written
       ELSE IF n = LIBSSH2_ERROR_EAGAIN
       THEN /\ spc' = [spc EXCEPT ![r] = "select"]
            /\ cur' = Hub
            /\ UNCHANGED data_written
       ELSE IF n < 0
       THEN /\ spc' = [spc EXCEPT ![r] = "returned"]
            /\ cur' = Hub
            /\ UNCHANGED data_written
       ELSE /\ data_written' = [data_written EXCEPT ![r] = data_written[r] + n]
            /\ spc' = [spc EXCEPT ![r] = "write"]
            /\ cur' = SrcLet(r)

\* `rc = channel.write(data)` after recv, `rc = channel.write(
\* data[data_written:])` after a partial write
LegacySrcWrite(r) ==
    /\ HubRunning
    /\ cur = SrcLet(r)
    /\ spc[r] = "write"
    /\ LET buf == Drop(data[r], data_written[r]) IN
       \E n \in WriteResults(r, buf) : LegacySrcWritten(r, buf, n)
    /\ UNCHANGED <<tunnelVars, sockVars, pc_run, consume_let, ppc, dpc, clVars, data,
                   localOut, sockRead, dstVars, envVars>>

\* wait_select() is over: `rc = channel.write(data)`; continue
LegacySrcRetry(r) ==
    /\ Sched(SrcLet(r))
    /\ spc[r] = "select"
    /\ LET buf == LegacyRetryBuf(data[r], data_written[r]) IN
       \E n \in WriteResults(r, buf) : LegacySrcWritten(r, buf, n)
    /\ UNCHANGED <<tunnelVars, sockVars, pc_run, consume_let, ppc, dpc, clVars, data,
                   localOut, sockRead, dstVars, envVars>>

\* _read_channel: `size, data = channel.read()`, with no eof test, then
\* `while size == LIBSSH2_ERROR_EAGAIN or size > 0:` and its body
LegacyDstRead(r) ==
    /\ Sched(DstLet(r))
    /\ dpc[r] \in {"top", "read", "select"}
    /\ \E res \in ReadResults(r) :
        /\ size' = [size EXCEPT ![r] = res[1]]
        /\ remoteOut' = [remoteOut EXCEPT ![r] = Drop(remoteOut[r], Len(res[2]))]
        /\ chanRead' = [chanRead EXCEPT ![r] = chanRead[r] \o res[2]]
        /\ IF res[1] = LIBSSH2_ERROR_EAGAIN
           THEN /\ dpc' = [dpc EXCEPT ![r] = "select"]
                /\ cur' = Hub
                /\ UNCHANGED <<sockIn, so_error>>
           ELSE IF res[1] > 0
           THEN IF ~SendRaises(r)
                THEN \/ /\ sockIn' = [sockIn EXCEPT ![r] = sockIn[r] \o res[2]]
                        /\ \E e \in AfterSend(r) :
                              so_error' = [so_error EXCEPT ![r] = e]
                        /\ dpc' = [dpc EXCEPT ![r] = "read"]
                        /\ cur' = DstLet(r)
                     \/ /\ dpc' = [dpc EXCEPT ![r] = "sendall"]
                        /\ cur' = Hub
                        /\ UNCHANGED <<sockIn, so_error>>
                ELSE /\ dpc' = [dpc EXCEPT ![r] = "raised"]
                     /\ so_error' = [so_error EXCEPT ![r] = Reported(@)]
                     /\ cur' = Hub
                     /\ UNCHANGED sockIn
           ELSE /\ dpc' = [dpc EXCEPT ![r] = "top"]
                /\ cur' = DstLet(r)
                /\ UNCHANGED <<sockIn, so_error>>
    /\ UNCHANGED <<tunnelVars, sockVars, pc_run, consume_let, ppc, spc,
                   clVars, srcVars, nsub, badSent, peer, _port, remoteEof, deadRead>>

\* forward_sock.sendall(data) that waited is woken: it delivers the chunk
\* and the next `size, data = channel.read()` follows, or it raises
LegacyDstSendall(r) ==
    /\ Sched(DstLet(r))
    /\ dpc[r] = "sendall"
    /\ IF ~SendRaises(r)
       THEN /\ sockIn' = [sockIn EXCEPT ![r] = sockIn[r] \o Unsent(r)]
            /\ \E e \in AfterSend(r) : so_error' = [so_error EXCEPT ![r] = e]
            /\ dpc' = [dpc EXCEPT ![r] = "read"]
            /\ cur' = DstLet(r)
       ELSE /\ dpc' = [dpc EXCEPT ![r] = "raised"]
            /\ so_error' = [so_error EXCEPT ![r] = Reported(@)]
            /\ cur' = Hub
            /\ UNCHANGED sockIn
    /\ UNCHANGED <<tunnelVars, sockVars, pc_run, consume_let, ppc, spc,
                   clVars, srcVars, size, remoteOut, chanRead,
                   nsub, badSent, peer, _port, remoteEof, deadRead>>

\* the pumps of pssh/tunnel.py; the target sends no EOF in these
\* specifications, so the recv steps are those of the newer pump
LegacyPumpStep(r) ==
    \/ SrcRecvBlock(r)
    \/ SrcRecv(r)
    \/ SrcRecvEmpty(r)
    \/ SrcRecvRaise(r)
    \/ LegacySrcWrite(r)
    \/ LegacySrcRetry(r)
    \/ LegacyDstRead(r)
    \/ LegacyDstSendall(r)

LegacyPairStep(r) ==
    \/ LegacyBind(r)
    \/ LegacyBindFail(r)
    \/ LegacyAccept(r)
    \/ LegacyAcceptFail(r)
    \/ LegacyOpenChannel(r)
    \/ LegacyOpenAgain(r)
    \/ LegacyChannelFail(r)
    \/ LegacyPairFinish(r)

NextLegacy ==
    \/ Submit
    \/ RunInitFail
    \/ InitClient
    \/ InitSession
    \/ LegacyEnterLoop
    \/ LegacyTake
    \/ LegacyPairOver
    \/ LegacyLoopAgain
    \/ CleanupStep("sup")
    \/ \E r \in Reqs :
          \/ LegacyPairStep(r)
          \/ LegacyPumpStep(r)
          \/ LocalTakePort(r)
          \/ LocalConnect(r)
          \/ LocalClose(r)
          \/ LocalReset(r)

SpecLegacy == Init /\ [][NextLegacy]_vars

NextLegacyPump ==
    \E r \in Reqs : LegacyPumpStep(r) \/ LocalClose(r) \/ LocalReset(r)

SpecLegacyPump == InitPump /\ [][NextLegacyPump]_vars

\* ================================================================= claims
IsPrefix(s, t) == Len(s) <= Len(t) /\ s = Take(t, Len(s))

\* _start_tunnel of request r has called accept()
AcceptCalled(r) == ppc[r] \in {"accept", "open_channel", "join"}

\* C1: every request whose listen socket was bound appends its port to the
\* result queue exactly once, in the step that takes it from its bind to
\* accept(): out_q grows only by that append, a request passes its bind at
\* most once, and a request that is not bound yet or whose bind failed has
\* no port there.
C1_PortPublishedOnceBeforeAccept ==
    /\ [](\A r \in Reqs :
            /\ Count(out_q, r) <= 1
            /\ ~AcceptCalled(r) /\ ppc[r] # "done" => Count(out_q, r) = 0
            /\ lsock[r] = "none" => Count(out_q, r) = 0)
    /\ [][\A r \in Reqs :
            /\ Count(out_q', r) > Count(out_q, r) =>
                  ppc[r] = "bound" /\ ppc'[r] \in {"accept", "done"}
            /\ ppc[r] = "bound" /\ ppc'[r] # "bound" =>
                  out_q' = Append(out_q, r)
            /\ ppc'[r] = "accept" /\ ppc[r] # "accept" => ppc[r] = "bound"
            /\ ppc'[r] = "bound" /\ ppc[r] # "bound" => ppc[r] = "spawned"
            /\ ppc'[r] = "spawned" /\ ppc[r] # "spawned" => ppc[r] = "none"
            /\ ppc'[r] = "none" => ppc[r] = "none"
            /\ ppc'[r] \in {"open_channel", "join"} =>
                  ppc[r] \in {"accept", "open_channel", "join"}]_vars

\* a connection was accepted on a port that was published and taken by the
\* local client, and another request failed to bind and published nothing
C1_Witness ==
    \E r, q \in Reqs :
        /\ fsock[r] = "open"
        /\ peer[r] = "open"
        /\ ppc[q] = "done"
        /\ lsock[q] = "none"
        /\ out_q = << >>

\* C2: requests are consumed in submission order: no request has been
\* consumed (spawned into tunnels) while a request submitted before it is
\* still pending in in_q.
C2_ServedInSubmissionOrder ==
    \A i \in 1 .. Len(in_q), j \in 1 .. Len(tunnels) : tunnels[j] < in_q[i]

\* the first of the sequential cleanup() calls has returned
FirstCleanupReturned ==
    \/ callsLeft < SeqCalls - 1
    \/ callsLeft = SeqCalls - 1 /\ clpc["caller"] = "idle"

\* C3: with cleanup() called repeatedly from one thread, no call raises, the
\* session is disconnected at most once (exactly once if it was established),
\* and from the return of the first call on, through every later call, every
\* tracked listen socket is closed and client and session are None.
C3_CleanupIdempotent ==
    /\ ~clerr["caller"]
    /\ clpc["caller"] # "raised"
    /\ disconnects <= 1
    /\ FirstCleanupReturned =>
          /\ \A i \in 1 .. Len(_sockets) : lsock[_sockets[i]] = "closed"
          /\ client = "None"
          /\ session = "None"
          /\ disconnects = IF tunnel_open THEN 1 ELSE 0

\* every call was made on an established tunnel with tracked sockets, and
\* the session was disconnected once
C3_Witness ==
    /\ callsLeft = 0
    /\ clpc["caller"] = "idle"
    /\ tunnel_open
    /\ disconnects = 1
    /\ Len(_sockets) > 0
    /\ session = "None"

\* C4: cleanup() run by the caller while the tunnel thread runs its own
\* cleanup() is safe: the session is disconnected at most once and no
\* cleanup() call raises.
C4_CleanupSafeWhenConcurrent ==
    /\ disconnects <= 1
    /\ \A t \in Threads : ~clerr[t] /\ clpc[t] # "raised"

\* C5: tunnel_open is unset until the session is ready, is set with client
\* and session both non-None at that moment, and is never cleared.
C5_OpenSetWithSession ==
    /\ [](pc_run \in {"start", "init_session", "init_open"} => ~tunnel_open)
    /\ [][tunnel_open => tunnel_open']_vars
    /\ [][(~tunnel_open /\ tunnel_open') => (HasClient' /\ HasSession')]_vars

\* C6: when the Session Provider raises, the error is in the exception slot,
\* run() has returned, tunnel_open stays unset, and no request is consumed:
\* everything submitted is still in in_q, nothing is published or spawned.
\* run() returns for no other reason.
C6_InitFailureStops ==
    /\ pc_run = "done" => exception = "InitErr"
    /\ exception = "InitErr" =>
          /\ pc_run = "done"
          /\ ~tunnel_open
          /\ Len(in_q) = nsub
          /\ out_q = <<>>
          /\ tunnels = <<>>
          /\ \A r \in Reqs : ppc[r] = "none"

\* the Session Provider failed and a request submitted to the tunnel waits
\* unconsumed
C6_Witness ==
    /\ exception = "InitErr"
    /\ pc_run = "done"
    /\ nsub = NReq
    /\ Len(in_q) = NReq

\* _start_tunnel of request r ends in this step on a bind, accept or
\* channel-open failure
PairFails(r) ==
    /\ ppc[r] \in {"spawned", "accept", "open_channel"}
    /\ ppc'[r] = "done"

\* C7: a bind, accept or channel-open failure of one request records its
\* error in the exception slot and touches nothing else: the thread stays in
\* its request loop, in_q keeps its pending requests, and every other
\* request's pair, pumps, sockets and channel are as they were; so the
\* request loop of an established tunnel never ends.
C7_FailureIsolated ==
    /\ [][\A r \in Reqs : PairFails(r) =>
            /\ exception' \in {"ListenErr", "AcceptErr", "ChannelErr"}
            /\ pc_run = "get" /\ pc_run' = "get"
            /\ in_q' = in_q
            /\ tunnels' = tunnels
            /\ \A q \in Reqs \ {r} :
                  /\ ppc'[q] = ppc[q] /\ spc'[q] = spc[q] /\ dpc'[q] = dpc[q]
                  /\ lsock'[q] = lsock[q] /\ fsock'[q] = fsock[q]
                  /\ chan'[q] = chan[q]]_vars
    /\ [](tunnel_open => pc_run = "get")

\* the request consumed first failed to accept, and the request consumed
\* after it has its channel open and its pumps running
C7_Witness ==
    \E r, q \in Reqs :
        /\ tunnels = <<r, q>>
        /\ ppc[r] = "done"
        /\ exception = "AcceptErr"
        /\ fsock[r] = "none"
        /\ ppc[q] = "join"
        /\ chan[q] = "open"

\* C8: the accepted socket and the channel of a pair are each closed at most
\* once, a socket or channel is closed exactly when its close was called,
\* and a pair that has ended, on the normal path or on an error path, leaves
\* neither its accepted socket nor its channel open.
C8_ClosedOnceOnEveryPath ==
    \A r \in Reqs :
        /\ fcloses[r] <= 1
        /\ ccloses[r] <= 1
        /\ fsock[r] = "closed" <=> fcloses[r] = 1
        /\ chan[r] = "closed" <=> ccloses[r] = 1
        /\ ppc[r] = "done" => fsock[r] # "open" /\ chan[r] # "open"

\* a pair ended on the channel-open error path with its accepted socket
\* closed once
C8_Witness ==
    \E r \in Reqs :
        /\ ppc[r] = "done"
        /\ exception = "ChannelErr"
        /\ chan[r] = "none"
        /\ fsock[r] = "closed"
        /\ fcloses[r] = 1

\* C9: the channel and the accepted socket of a pair are closed only after
\* both of its pumps have ended.
C9_ClosedAfterBothPumps ==
    \A r \in Reqs :
        (chan[r] = "closed" \/ (fsock[r] = "closed" /\ chan[r] # "none")) =>
            Ended(spc[r]) /\ Ended(dpc[r])

\* the source pump is not in the middle of forwarding a buffer
SrcBetweenBuffers(r) == spc[r] \in {"top", "recv"}

\* the destination pump is not in the middle of forwarding a chunk
DstBetweenChunks(r) == dpc[r] \in {"top", "read", "select"}

\* C10: through partial writes and would-block retries, the bytes written
\* to the channel are always a prefix of the bytes read from the socket,
\* the unwritten rest of the current buffer is exactly what is missing, and
\* between buffers the two are equal: every byte is forwarded once and in
\* order. The same holds from the channel to the socket.
C10_ExactlyOnceInOrder ==
    \A r \in Reqs :
        /\ IsPrefix(chanIn[r], sockRead[r])
        /\ spc[r] \in {"write", "select"} =>
              sockRead[r] = chanIn[r] \o Drop(data[r], data_written[r])
        /\ SrcBetweenBuffers(r) => chanIn[r] = sockRead[r]
        /\ IsPrefix(sockIn[r], chanRead[r])
        /\ DstBetweenChunks(r) => sockIn[r] = chanRead[r]

\* the source pump waits after a partial write followed by a would-block,
\* while the destination pump has delivered the whole remote stream
C10_Witness ==
    \E r \in Reqs :
        /\ spc[r] = "select"
        /\ 0 < data_written[r]
        /\ data_written[r] < Len(data[r])
        /\ sockIn[r] = Stream(MaxLen)

\* the last channel.read() of the destination pump returned an error code
\* other than would-block
ReadFailed(r) == size[r] < 0 /\ size[r] # LIBSSH2_ERROR_EAGAIN

\* C11: a channel.read() result that is negative and not the would-block
\* code ends the destination pump: whenever the last read result is such an
\* error, the pump has returned.
C11_ReadErrorEndsPump ==
    \A r \in Reqs : ReadFailed(r) => dpc[r] = "returned"

\* C12: a would-block result never ends a pump: no step in which
\* channel.write or channel.read returns the would-block code takes the
\* pump that made the call to its end (returned or raised).
C12_WouldBlockNeverEndsPump ==
    [][\A r \in Reqs :
          /\ (spc[r] \in {"write", "select"} /\ Ended(spc'[r])) =>
                rc'[r] # LIBSSH2_ERROR_EAGAIN
          /\ (dpc[r] \in {"top", "read", "select"} /\ Ended(dpc'[r])) =>
                size'[r] # LIBSSH2_ERROR_EAGAIN]_vars

\* the pair of request r is over: both pumps ended, channel and accepted
\* socket closed
PairCancelled(r) ==
    /\ Ended(spc[r]) /\ Ended(dpc[r])
    /\ chan[r] = "closed"
    /\ fsock[r] = "closed"

\* the local client has closed its connection or the target has sent EOF
PeerActed(r) == peer[r] # "open" \/ remoteEof[r]

\* C13: once cleanup() has disconnected the session under a pair whose pumps
\* run, both pumps eventually end and the pair's channel and accepted socket
\* are eventually closed, unless the local client or the target acts first:
\* cancellation needs no action of theirs.
C13_CleanupCancelsPair ==
    \A r \in Reqs :
        (disconnects > 0 /\ ppc[r] = "join") ~>
            (PairCancelled(r) \/ PeerActed(r))

\* this step calls eof, read, write or close on the channel of request r
ChannelOpStep(r) ==
    \/ spc[r] = "top" /\ spc'[r] # "top"
    \/ /\ spc[r] \in {"write", "select"}
       /\ spc'[r] # spc[r] \/ rc'[r] # rc[r] \/ chanIn'[r] # chanIn[r]
    \/ /\ dpc[r] \in {"top", "read", "select"}
       /\ dpc'[r] # dpc[r] \/ size'[r] # size[r]
    \/ ccloses'[r] # ccloses[r]

\* this step opens a channel for request r with direct_tcpip_ex
ChannelOpenStep(r) == chan[r] = "none" /\ chan'[r] = "open"

\* C14: once cleanup() has disconnected the session, no step opens a
\* channel on it and no step calls eof, read, write or close on a channel
\* opened from it.
C14_NoUseAfterDispose ==
    [][disconnects > 0 =>
          \A r \in Reqs : ~ChannelOpStep(r) /\ ~ChannelOpenStep(r)]_vars

\* _start_tunnel of request r is blocked in accept, in the channel opening
\* or in joinall on its pumps
InFlight(r) == ppc[r] \in {"accept", "open_channel", "join"}

\* C15: the request loop never waits for a pair: whenever the thread is in
\* its request loop, no other greenlet holds it and a request is pending,
\* _consume_q can take the request, whatever the earlier pairs are doing.
C15_LoopNeverWaitsForPair ==
    (HubRunning /\ cur \in {Hub, ConsumeLet} /\ in_q # << >>) =>
        ENABLED ConsumePop

\* a request was consumed and its port published while the pair consumed
\* before it has its channel open and its pumps running
C15_Witness ==
    \E q, r \in Reqs :
        /\ tunnels = <<q, r>>
        /\ ppc[q] = "join" /\ chan[q] = "open"
        /\ ppc[r] = "accept"
        /\ out_q = <<r>>

\* C16: when _start_tunnel has returned for a request whose listen socket
\* was bound, that listen socket is closed, whether or not cleanup() was
\* called.
C16_ListenSocketReleased ==
    \A r \in Reqs :
        (ppc[r] = "done" /\ lsock[r] # "none") => lsock[r] = "closed"

\* C17: with every greenlet scheduled fairly, the source pump of a running
\* pair eventually ends once the local client has closed its connection or
\* the channel is at EOF, and the destination pump eventually ends once the
\* channel is at EOF.
C17_PumpsTerminate ==
    \A r \in Reqs :
        /\ (ppc[r] = "join" /\ peer[r] = "closed") ~> Ended(spc[r])
        /\ (ppc[r] = "join" /\ ChannelEof(r)) ~>
              (Ended(spc[r]) /\ Ended(dpc[r]))

\* the channel opening of request r failed: its pair is over, it has an
\* accepted socket and no channel
ChannelOpenFailed(r) ==
    /\ ppc[r] \in {"done", "raised"}
    /\ fsock[r] # "none"
    /\ chan[r] = "none"

\* C18: a pair whose channel opening failed has closed its accepted socket
\* and its listen socket and has started no pump.
C18_ChannelFailureClosesBoth ==
    \A r \in Reqs :
        ChannelOpenFailed(r) =>
            /\ fsock[r] = "closed"
            /\ lsock[r] = "closed"
            /\ spc[r] = "none" /\ dpc[r] = "none"

\* C19: in pssh/tunnel.py the channel never receives a byte of a buffer
\* twice: the bytes the channel accepted are a prefix of the bytes read from
\* the local socket.
C19_LegacyNoByteTwice ==
    \A r \in Reqs : IsPrefix(chanIn[r], sockRead[r])

\* C20: the Tunnel of pssh/tunnel.py serves one request: it consumes at
\* most one entry and publishes at most one port, and once the pair it
\* served is over and _cleanup has run, run() has returned.
C20_LegacyServesOneRequest ==
    /\ Len(tunnels) <= 1
    /\ Len(out_q) <= 1
    /\ (tunnels # << >> /\ disconnects > 0 /\ clpc["sup"] = "idle") =>
          pc_run = "done"

\* the request loop has ended with an error: run() is in its finally block
\* or past it
LoopEnded == pc_run \in {"finally", "crashed"}

\* C21: when the request loop ends with an error, run() records that error
\* in the exception slot and no exception leaves run().
C21_LoopErrorRecorded ==
    /\ LoopEnded => exception = "LoopErr"
    /\ pc_run # "crashed"

\* request r is where one pop, one spawn and one registration leave it:
\* in in_q until popped, in tunnels from then on, a pair task exactly then
EntryAccounted(r) ==
    /\ Count(in_q, r) + Count(tunnels, r) = (IF r <= nsub THEN 1 ELSE 0)
    /\ ppc[r] # "none" <=> Count(tunnels, r) = 1

\* C22: every intake entry is popped once, spawns one _start_tunnel task
\* that is registered once in tunnels, and that task accepts at most one
\* connection and opens at most one channel.
C22_EntryConsumedOnce ==
    /\ [](\A r \in Reqs : EntryAccounted(r))
    /\ [][\A r \in Reqs :
            /\ fsock'[r] = "open" /\ fsock[r] # "open" => fsock[r] = "none"
            /\ chan'[r] = "open" /\ chan[r] # "open" =>
                  chan[r] = "none" /\ fsock[r] = "open"
            /\ tunnels' # tunnels => tunnels' = Append(tunnels, PopEntry(in_q))
            /\ in_q' # in_q => \/ in_q' = Append(in_q, nsub + 1)
                               \/ in_q' = SubSeq(in_q, 1, Len(in_q) - 1)]_vars

C22_Witness ==
    /\ nsub = NReq
    /\ in_q = << >>
    /\ Len(tunnels) = NReq
    /\ \E r \in Reqs : fsock[r] = "closed" /\ chan[r] = "closed"

\* the caller's cleanup() has returned after it disconnected the session
SessionDisposed ==
    /\ callsLeft = 0
    /\ clpc["caller"] = "idle"
    /\ disconnects > 0

\* C23: once cleanup() has disposed the session and returned, no step of the
\* Tunnel opens a listen socket, adds one to _sockets or publishes a listen
\* port.
C23_NothingServedAfterCleanup ==
    [][SessionDisposed =>
          /\ Len(out_q') <= Len(out_q)
          /\ _sockets' = _sockets
          /\ \A r \in Reqs : lsock'[r] = "open" => lsock[r] = "open"]_vars

\* a pump of request r holds the Tunnel thread
PumpHolds(r) == cur \in {SrcLet(r), DstLet(r)}

\* C24: with every greenlet scheduled fairly, a pump that holds the thread
\* always gives it back to the hub, so that the request loop and the other
\* pumps get to run.
C24_PumpsYield == \A r \in Reqs : PumpHolds(r) ~> cur = Hub

====
